---- MODULE Spec2Model ----
(***************************************************************************)
(* Model of pykokkos' dispatch-argument handling and type inference        *)
(* (pykokkos/interface/args_type_inference.py) and of the runtime manager  *)
(* (pykokkos/kokkos_manager/__init__.py).                                  *)
(*                                                                         *)
(* Python strings are sequences of one-character strings, so that          *)
(* concatenation, "in" and str.replace are computed as Python computes     *)
(* them.  A dict is the sequence of its <<key, value>> pairs in insertion  *)
(* order.  Python objects are records tagged by their class in field k.    *)
(***************************************************************************)
EXTENDS Integers, Sequences, FiniteSets, TLC

VARIABLES
    pc,              \* position of the dispatch being modelled
    parallel_type,   \* "parallel_for" | "parallel_reduce" | "parallel_scan"
    is_for,          \* the flag the dispatcher hands to handle_args
    args,            \* the raw positional tuple of the dispatch
    passed_kwargs,   \* the raw keyword arguments of the dispatch (name -> value)
    handled_args,    \* outcome of handle_args
    policy_types,    \* outcome of infer_policy_args
    updated_types,   \* outcome of get_annotations
    sig_maps,        \* two (inferred_types, inferred_layouts) pairs handed to get_types_sig
    signatures,      \* the two signatures get_types_sig returned for sig_maps
    CONSTANTS_,      \* kokkos_manager.CONSTANTS
    DEBUG,           \* os.environ.get("DEBUG"): None, or the string it is set to
    kokkos_calls,    \* calls made on the kokkos binding module, in order
    cuda_device,     \* the device cupy.cuda.runtime.setDevice selected last
    raised,          \* exception raised by the last kokkos_manager call, or "none"
    last_call        \* the last kokkos_manager call and its argument

vars == <<pc, parallel_type, is_for, args, passed_kwargs, handled_args, policy_types,
          updated_types, sig_maps, signatures, CONSTANTS_, DEBUG, kokkos_calls,
          cuda_device, raised, last_call>>

inference_vars == <<parallel_type, is_for, args, passed_kwargs, handled_args,
                    policy_types, updated_types>>
sig_vars == <<sig_maps, signatures>>
km_vars == <<CONSTANTS_, DEBUG, kokkos_calls, cuda_device, raised, last_call>>

-----------------------------------------------------------------------------
(* Python str operations *)

\* "sub in s"
RECURSIVE contains(_, _)
contains(s, sub) ==
    IF Len(s) < Len(sub) THEN FALSE
    ELSE IF SubSeq(s, 1, Len(sub)) = sub THEN TRUE
    ELSE contains(Tail(s), sub)

\* s.replace(old, new): leftmost non-overlapping occurrences, old non-empty
RECURSIVE replace(_, _, _)
replace(s, old, new) ==
    IF Len(s) < Len(old) THEN s
    ELSE IF SubSeq(s, 1, Len(old)) = old
         THEN new \o replace(SubSeq(s, Len(old) + 1, Len(s)), old, new)
         ELSE <<s[1]>> \o replace(Tail(s), old, new)

DigitChar(d) == <<"0", "1", "2", "3", "4", "5", "6", "7", "8", "9">>[d + 1]

\* str(n) for an int n >= 0
RECURSIVE str(_)
str(n) == IF n < 10 THEN <<DigitChar(n)>> ELSE str(n \div 10) \o <<DigitChar(n % 10)>>

(* Python dict operations, insertion-ordered *)

dict_has(d, key) == \E j \in 1..Len(d) : d[j][1] = key
dict_get(d, key) == d[CHOOSE j \in 1..Len(d) : d[j][1] = key][2]
\* d[key] = value: an existing key keeps its position
dict_set(d, key, value) ==
    IF dict_has(d, key)
    THEN [j \in 1..Len(d) |-> IF d[j][1] = key THEN <<key, value>> ELSE d[j]]
    ELSE Append(d, <<key, value>>)
dict_keys(d) == {d[j][1] : j \in 1..Len(d)}

-----------------------------------------------------------------------------
(* String literals of the source *)

s_int == <<"i", "n", "t">>
s_double == <<"d", "o", "u", "b", "l", "e">>
s_float == <<"f", "l", "o", "a", "t">>
s_bool == <<"b", "o", "o", "l">>
s_str == <<"s", "t", "r">>
s_NoneType == <<"N", "o", "n", "e", "T", "y", "p", "e">>
s_View == <<"V", "i", "e", "w">>
s_TeamMember == <<"T", "e", "a", "m", "M", "e", "m", "b", "e", "r">>
s_Acc == <<"A", "c", "c", ":">>
s_Acc_double == s_Acc \o s_double
s_numpy == <<"n", "u", "m", "p", "y">>
s_numpy_colon == s_numpy \o <<":">>
s_int64 == <<"i", "n", "t", "6", "4">>
s_int32 == <<"i", "n", "t", "3", "2">>
s_float64 == <<"f", "l", "o", "a", "t", "6", "4">>
s_float32 == <<"f", "l", "o", "a", "t", "3", "2">>
s_str_ == <<"s", "t", "r", "_">>
s_numpy_int64 == s_numpy_colon \o s_int64
s_LayoutRight == <<"L", "a", "y", "o", "u", "t", "R", "i", "g", "h", "t">>
s_LayoutLeft == <<"L", "a", "y", "o", "u", "t", "L", "e", "f", "t">>
s_builtins == <<"b", "u", "i", "l", "t", "i", "n", "s">>
s_views_module ==
    <<"p", "y", "k", "o", "k", "k", "o", "s", ".", "i", "n", "t", "e", "r", "f", "a", "c", "e",
      ".", "v", "i", "e", "w", "s">>

-----------------------------------------------------------------------------
(* Python values *)

NoneV == [k |-> "None"]
StrV(s) == [k |-> "str", s |-> s]
\* a built-in int: its sign and the binary digits of its magnitude, the most
\* significant first (Python ints are unbounded)
IntV(neg, bits) == [k |-> "int", neg |-> neg, bits |-> bits]
FloatV == [k |-> "float"]
BoolV(b) == [k |-> "bool", b |-> b]
\* a numpy scalar of class tname
NumpyV(tname) == [k |-> "numpy", tname |-> tname]
\* a View with its layout, len(shape) and dtype
ViewV(layout, rank, dtype) == [k |-> "View", layout |-> layout, rank |-> rank, dtype |-> dtype]
\* view.dtype: a DataType member, a DataTypeClass subclass, or something else
DTypeEnum(name) == [k |-> "DataType", name |-> name]
DTypeClass(name) == [k |-> "DataTypeClass", name |-> name]
DTypeOther == [k |-> "other", name |-> <<>>]
\* an execution policy; begin_len is len(policy.begin) of an MDRangePolicy
PolicyV(kind, begin_len, space) ==
    [k |-> "policy", kind |-> kind, begin_len |-> begin_len, space |-> space]
\* a workunit; params is inspect.signature(workunit).parameters
FunctionV(params) == [k |-> "function", params |-> params]
Param(name, annotated) == [name |-> name, annotated |-> annotated]

Zero == IntV(FALSE, <<>>)

\* the binary digits of n >= 0, without leading zeros
RECURSIVE to_bits(_)
to_bits(n) == IF n = 0 THEN <<>> ELSE Append(to_bits(n \div 2), n % 2)

\* the int n as a value
IntOf(n) == IntV(n < 0, to_bits(IF n < 0 THEN -n ELSE n))

RECURSIVE bits_value(_)
bits_value(bits) ==
    IF bits = <<>> THEN 0 ELSE 2 * bits_value(SubSeq(bits, 1, Len(bits) - 1)) + bits[Len(bits)]

\* the number an int or bool value stands for (small values only)
int_of(v) ==
    IF v.k = "bool" THEN (IF v.b THEN 1 ELSE 0)
    ELSE IF v.neg THEN -bits_value(v.bits) ELSE bits_value(v.bits)

\* int.bit_length(): the number of binary digits of the magnitude, leading zeros
\* and the sign left out
RECURSIVE bit_length(_)
bit_length(v) ==
    IF v.bits = <<>> THEN 0
    ELSE IF v.bits[1] = 0 THEN bit_length([v EXCEPT !.bits = Tail(@)])
    ELSE Len(v.bits)

\* type(value).__name__
type_name(v) ==
    CASE v.k = "int" -> s_int
      [] v.k = "float" -> s_float
      [] v.k = "bool" -> s_bool
      [] v.k = "str" -> s_str
      [] v.k = "None" -> s_NoneType
      [] v.k = "numpy" -> v.tname
      [] v.k = "View" -> s_View

\* type(value).__module__
type_module(v) ==
    CASE v.k = "numpy" -> s_numpy
      [] v.k = "View" -> s_views_module
      [] OTHER -> s_builtins

\* isinstance(v, str): numpy.str_ is a subclass of str
is_str(v) ==
    \/ v.k = "str"
    \/ v.k = "numpy" /\ v.tname = s_str_
\* isinstance(v, int): bool is a subclass of int
is_int(v) == v.k \in {"int", "bool"}
\* isinstance(v, (int, float)): numpy.float64 is a subclass of float
is_int_or_float(v) ==
    \/ v.k \in {"int", "bool", "float"}
    \/ v.k = "numpy" /\ v.tname = s_float64
\* isinstance(v, ViewType), isinstance(v, View)
is_view(v) == v.k = "View"

-----------------------------------------------------------------------------
(* kokkos_manager: queries *)

\* the truth value of os.environ.get("DEBUG"): set, and not the empty string
truthy(debug) == debug.some /\ debug.s # <<>>

get_default_space(debug, constants) ==
    IF truthy(debug) THEN "Debug" ELSE constants.EXECUTION_SPACE

\* layout.get_default_layout(space)
get_default_layout(space) ==
    IF space = "Cuda" THEN "LayoutLeft" ELSE "LayoutRight"

-----------------------------------------------------------------------------
(* handle_args *)

\* RangePolicy(km.get_default_space(), 0, policy) for an int policy
normalize_policy(policy, default_space) ==
    IF is_int(policy) THEN PolicyV("RangePolicy", 1, default_space) ELSE policy

HandledArgs(name, policy, workunit, view, initial_value, default_space) ==
    [status |-> "ok", name |-> name,
     policy |-> normalize_policy(policy, default_space),
     workunit |-> workunit, view |-> view, initial_value |-> initial_value]

Raise(exc) == [status |-> exc]

\* binds_view without the is_for test
binds_view_any_dispatch(isfor, value) == is_view(value)

\* is_for and isinstance(value, ViewType)
binds_view(isfor, value) == isfor /\ is_view(value)

handle_args(isfor, unpacked, default_space) ==
    IF Len(unpacked) = 2 THEN
        HandledArgs(NoneV, unpacked[1], unpacked[2], NoneV, Zero, default_space)
    ELSE IF Len(unpacked) = 3 THEN
        IF is_str(unpacked[1]) THEN
            HandledArgs(unpacked[1], unpacked[2], unpacked[3], NoneV, Zero, default_space)
        ELSE IF binds_view(isfor, unpacked[3]) THEN
            HandledArgs(NoneV, unpacked[1], unpacked[2], unpacked[3], Zero, default_space)
        ELSE IF is_int_or_float(unpacked[3]) THEN
            HandledArgs(NoneV, unpacked[1], unpacked[2], NoneV, unpacked[3], default_space)
        ELSE Raise("TypeError")
    ELSE IF Len(unpacked) = 4 THEN
        IF is_str(unpacked[1]) THEN
            IF binds_view(isfor, unpacked[4]) THEN
                HandledArgs(unpacked[1], unpacked[2], unpacked[3], unpacked[4], Zero,
                            default_space)
            ELSE IF is_int_or_float(unpacked[4]) THEN
                HandledArgs(unpacked[1], unpacked[2], unpacked[3], NoneV, unpacked[4],
                            default_space)
            ELSE Raise("TypeError")
        ELSE Raise("TypeError")
    ELSE Raise("ValueError")

-----------------------------------------------------------------------------
(* Optional[str]: None, or a string *)

NoneStr == [some |-> FALSE, s |-> <<>>]
SomeStr(s) == [some |-> TRUE, s |-> s]

\* UpdatedTypes(workunit, inferred_types={}, param_list, layout_change={}, types_signature=None)
UpdatedTypes ==
    [status |-> "ok", inferred_types |-> <<>>, layout_change |-> <<>>,
     types_signature |-> NoneStr]

\* the "no annotations to be inferred" return value of get_annotations
ReturnNone == [status |-> "None"]

RaiseFor(exc, about) == [status |-> exc, about |-> about]

-----------------------------------------------------------------------------
(* infer_policy_args *)

policy_params_of(policy, ptype) ==
    (IF policy.kind = "MDRangePolicy" THEN policy.begin_len ELSE 1)
    + (IF ptype = "parallel_reduce" THEN 1 ELSE 0)
    + (IF ptype = "parallel_scan" THEN 2 ELSE 0)

SupportedPolicies == {"RangePolicy", "TeamThreadRange", "TeamPolicy", "MDRangePolicy"}

\* the annotation the policy itself gives parameter i
policy_annotation(types, name, i, policy) ==
    IF policy.kind \in {"RangePolicy", "TeamThreadRange"} THEN
        IF i = 0 THEN dict_set(types, name, s_int) ELSE types
    ELSE IF policy.kind = "TeamPolicy" THEN
        IF i = 0 THEN dict_set(types, name, s_TeamMember) ELSE types
    ELSE
        IF i < policy.begin_len THEN dict_set(types, name, s_int) ELSE types

\* is_accumulator taking the last policy parameter for a scan too
is_accumulator_last(i, policy_params, ptype) ==
    i = policy_params - 1 /\ ptype \in {"parallel_reduce", "parallel_scan"}

is_accumulator(i, policy_params, ptype) ==
    \/ i = policy_params - 1 /\ ptype = "parallel_reduce"
    \/ i = policy_params - 2 /\ ptype = "parallel_scan"

is_last_pass(i, policy_params, ptype) ==
    i = policy_params - 1 /\ ptype = "parallel_scan"

accumulator_annotation(types, name, i, policy_params, ptype) ==
    LET t1 == IF is_accumulator(i, policy_params, ptype)
              THEN dict_set(types, name, s_Acc_double) ELSE types
    IN  IF is_last_pass(i, policy_params, ptype) THEN dict_set(t1, name, s_bool) ELSE t1

RECURSIVE infer_policy_loop(_, _, _, _, _, _)
infer_policy_loop(i, param_list, policy_params, policy, ptype, ut) ==
    IF i >= policy_params THEN ut
    ELSE IF i + 1 > Len(param_list) THEN Raise("IndexError")
    ELSE IF param_list[i + 1].annotated THEN
        infer_policy_loop(i + 1, param_list, policy_params, policy, ptype, ut)
    ELSE IF policy.kind \notin SupportedPolicies THEN Raise("ValueError")
    ELSE
        LET name == param_list[i + 1].name
            t1 == policy_annotation(ut.inferred_types, name, i, policy)
            t2 == accumulator_annotation(t1, name, i, policy_params, ptype)
        IN  infer_policy_loop(i + 1, param_list, policy_params, policy, ptype,
                              [ut EXCEPT !.inferred_types = t2])

infer_policy_args(param_list, policy_params, policy, ptype, ut) ==
    infer_policy_loop(0, param_list, policy_params, policy, ptype, ut)

-----------------------------------------------------------------------------
(* infer_other_args *)

\* members of the DataType enumeration
DataTypeMembers == {s_int32, s_int64, s_double, s_float, s_bool}

SUPPORTED_NP_DTYPES == DataTypeMembers \cup {s_float64, s_float32}

\* float64 -> double, float32 -> float
alias_float(name) ==
    IF name = s_float64 THEN s_double
    ELSE IF name = s_float32 THEN s_float
    ELSE name

get_pk_datatype(view_dtype) ==
    IF view_dtype.k \in {"DataType", "DataTypeClass"}
    THEN SomeStr(alias_float(view_dtype.name))
    ELSE NoneStr

\* inferred_layout without the default of the execution space
inferred_layout_own_only(value, space) == value.layout

\* the layout a View value is given
inferred_layout(value, space) ==
    IF value.layout # "LayoutDefault" THEN value.layout ELSE get_default_layout(space)

layout_string(layout) ==
    IF layout = "LayoutRight" THEN s_LayoutRight ELSE s_LayoutLeft

\* record_layout recording nothing
record_layout_skipped(layouts, name, value, space) == layouts

record_layout(layouts, name, value, space) ==
    IF is_view(value)
    THEN dict_set(layouts, name, layout_string(inferred_layout(value, space)))
    ELSE layouts

IntPromotionBits == 31

\* promoted_type switching over only past 32 bits
promoted_type_past_32(value) ==
    IF type_name(value) = s_int /\ bit_length(value) > IntPromotionBits + 1
    THEN s_numpy_int64
    ELSE type_name(value)

\* type(value).__name__, an int of more than 31 bits switched to numpy:int64
promoted_type(value) ==
    IF type_name(value) = s_int /\ bit_length(value) > IntPromotionBits
    THEN s_numpy_int64
    ELSE type_name(value)

view_type(value, view_dtype) ==
    s_View \o str(value.rank) \o <<"D", ":">> \o view_dtype

\* the type of one unannotated value parameter, or the exception raised for it
infer_value_type(name, value) ==
    LET t0 == promoted_type(value)
        is_numpy == type_module(value) = s_numpy
    IN  IF is_numpy /\ t0 \notin SUPPORTED_NP_DTYPES THEN RaiseFor("TypeError", t0)
        ELSE
            LET t1 == IF is_numpy THEN s_numpy_colon \o alias_float(t0) ELSE t0
            IN  IF is_view(value) THEN
                    LET view_dtype == get_pk_datatype(value.dtype)
                    IN  IF ~view_dtype.some \/ view_dtype.s = <<>>
                        THEN RaiseFor("TypeError", name)
                        ELSE [status |-> "ok", type |-> view_type(value, view_dtype.s)]
                ELSE [status |-> "ok", type |-> t1]

RECURSIVE infer_other_loop(_, _, _, _, _, _, _)
infer_other_loop(i, param_list, policy_params, args_list, start_idx, space, ut) ==
    IF i >= Len(param_list) THEN ut
    ELSE IF start_idx + i - policy_params + 1 > Len(args_list) THEN Raise("IndexError")
    ELSE
        LET param == param_list[i + 1]
            value == args_list[start_idx + i - policy_params + 1]
            ut1 == [ut EXCEPT !.layout_change = record_layout(@, param.name, value, space)]
        IN  IF param.annotated THEN
                infer_other_loop(i + 1, param_list, policy_params, args_list, start_idx,
                                 space, ut1)
            ELSE
                LET r == infer_value_type(param.name, value)
                IN  IF r.status # "ok" THEN r
                    ELSE infer_other_loop(i + 1, param_list, policy_params, args_list,
                            start_idx, space,
                            [ut1 EXCEPT !.inferred_types = dict_set(@, param.name, r.type)])

infer_other_args(param_list, policy_params, args_list, start_idx, space, ut) ==
    infer_other_loop(policy_params, param_list, policy_params, args_list, start_idx,
                     space, ut)

-----------------------------------------------------------------------------
(* get_types_sig *)

\* signature += i_type (+ inferred_layouts[name]) over inferred_types.items()
RECURSIVE types_part(_, _, _)
types_part(j, inferred_types, inferred_layouts) ==
    IF j > Len(inferred_types) THEN <<>>
    ELSE
        LET name == inferred_types[j][1]
            i_type == inferred_types[j][2]
        IN  i_type
            \o (IF contains(i_type, s_View) /\ dict_has(inferred_layouts, name)
                THEN dict_get(inferred_layouts, name) ELSE <<>>)
            \o types_part(j + 1, inferred_types, inferred_layouts)

\* signature += name + l_type over inferred_layouts.items()
RECURSIVE layouts_part(_, _)
layouts_part(j, inferred_layouts) ==
    IF j > Len(inferred_layouts) THEN <<>>
    ELSE inferred_layouts[j][1] \o inferred_layouts[j][2]
         \o layouts_part(j + 1, inferred_layouts)

compact(signature) ==
    LET c1 == replace(signature, s_View, <<>>)
        c2 == replace(c1, s_Acc, <<>>)
        c3 == replace(c2, s_TeamMember, <<"T">>)
        c4 == replace(c3, s_numpy_colon, <<"n", "p">>)
        c5 == replace(c4, s_LayoutRight, <<"R">>)
        c6 == replace(c5, s_LayoutLeft, <<"L">>)
        c7 == replace(c6, <<":">>, <<>>)
        c8 == replace(c7, s_double, <<"d">>)
        c9 == replace(c8, s_int, <<"i">>)
        c10 == replace(c9, s_bool, <<"b">>)
    IN  replace(c10, s_float, <<"f">>)

get_types_sig(inferred_types, inferred_layouts) ==
    IF Len(inferred_layouts) = 0 /\ Len(inferred_types) = 0 THEN NoneStr
    ELSE
        LET s1 == types_part(1, inferred_types, inferred_layouts)
            s2 == IF s1 = <<>> THEN layouts_part(1, inferred_layouts) ELSE s1
        IN  SomeStr(compact(s2))

-----------------------------------------------------------------------------
(* get_annotations *)

\* the values of the keyword arguments that name a value parameter, in parameter order
kwargs_values(param_list, policy_params, kwargs) ==
    LET value_params == SubSeq(param_list, policy_params + 1, Len(param_list))
        named == SelectSeq(value_params, LAMBDA p : p.name \in DOMAIN kwargs)
    IN  [j \in 1..Len(named) |-> kwargs[named[j].name]]

value_idx_of(handled) == IF handled.name # NoneV THEN 3 ELSE 2

\* expected_values counting only the parameters without an annotation
expected_values_unannotated(param_list, policy_params) ==
    Cardinality({j \in (policy_params + 1)..Len(param_list) : ~param_list[j].annotated})

\* the two sides of the assertion of get_annotations
expected_values(param_list, policy_params) == Len(param_list) - policy_params
available_values(args_list, value_idx) == Len(args_list) - value_idx

\* the return of the branch "policy parameters are the only parameters"
policy_only_result(ut) ==
    IF Len(ut.inferred_types) = 0 THEN ReturnNone ELSE ut

\* the return after infer_other_args
full_result(ut) ==
    IF Len(ut.inferred_types) = 0 /\ Len(ut.layout_change) = 0 THEN ReturnNone
    ELSE [ut EXCEPT !.types_signature = get_types_sig(ut.inferred_types, ut.layout_change)]

get_annotations(ptype, handled, raw_args, kwargs) ==
    LET param_list == handled.workunit.params
        policy_params == policy_params_of(handled.policy, ptype)
        ut == infer_policy_args(param_list, policy_params, handled.policy, ptype,
                                UpdatedTypes)
    IN  IF ut.status # "ok" THEN ut
        ELSE IF Len(param_list) = policy_params THEN policy_only_result(ut)
        ELSE
            LET args_list == raw_args \o kwargs_values(param_list, policy_params, kwargs)
                value_idx == value_idx_of(handled)
            IN  IF expected_values(param_list, policy_params)
                       # available_values(args_list, value_idx)
                THEN Raise("AssertionError")
                ELSE
                    LET ut2 == infer_other_args(param_list, policy_params, args_list,
                                    value_idx, handled.policy.space, ut)
                    IN  IF ut2.status # "ok" THEN ut2 ELSE full_result(ut2)

-----------------------------------------------------------------------------
(* kokkos_manager: state and lifecycle operations *)

KokkosLib == [lib |-> "kokkos"]
\* the module importlib.import_module(f"gpu{id}") returns
GpuLib(id) == [lib |-> "gpu", id |-> id]

\* get_kokkos_module(is_cpu)
get_kokkos_module(constants, is_cpu) ==
    IF is_cpu THEN KokkosLib ELSE constants.KOKKOS_GPU_MODULE

\* CONSTANTS as the module body sets it before the multi-device import block
DefaultConstants ==
    [EXECUTION_SPACE |-> "OpenMP", REAL_DTYPE |-> DTypeClass(s_double),
     IS_INITIALIZED |-> FALSE,
     ENABLE_UVM |-> FALSE, MULTI_GPU |-> FALSE, NUM_GPUS |-> 0,
     KOKKOS_GPU_MODULE |-> KokkosLib, KOKKOS_GPU_MODULE_LIST |-> <<>>, DEVICE_ID |-> 0]

\* CONSTANTS after the multi-device block found num_cuda_gpus devices: with no device,
\* KOKKOS_LIB_INSTANCES[0] raises after the first three assignments
MultiGpuConstants(num_cuda_gpus) ==
    LET instances == [j \in 1..num_cuda_gpus |-> GpuLib(j - 1)]
        c == [DefaultConstants EXCEPT !.MULTI_GPU = TRUE, !.NUM_GPUS = num_cuda_gpus,
                                      !.KOKKOS_GPU_MODULE_LIST = instances]
    IN  IF num_cuda_gpus = 0 THEN c ELSE [c EXCEPT !.KOKKOS_GPU_MODULE = instances[1]]

\* the members of ExecutionSpace the code and its callers name
ExecutionSpaces == {"OpenMP", "Cuda", "Debug"}

\* must_initialize without the IS_INITIALIZED test
must_initialize_always(constants) == TRUE

must_initialize(constants) == constants.IS_INITIALIZED = FALSE
must_finalize(constants) == constants.IS_INITIALIZED = TRUE

device_out_of_range(device_id, num_gpus) == device_id >= num_gpus \/ device_id < 0

\* select_device without the assignment of KOKKOS_GPU_MODULE
select_device_id_only(constants, device_id) == [constants EXCEPT !.DEVICE_ID = device_id]

\* CONSTANTS after the two assignments that end set_device_id
select_device(constants, device_id) ==
    [constants EXCEPT !.DEVICE_ID = device_id,
                      !.KOKKOS_GPU_MODULE = constants.KOKKOS_GPU_MODULE_LIST[device_id + 1]]

MaxCalls == 4
MaxGpus == 3

initialize ==
    /\ pc = "km"
    /\ last_call' = [op |-> "initialize"]
    /\ IF must_initialize(CONSTANTS_)
       THEN /\ Len(kokkos_calls) < MaxCalls
            /\ kokkos_calls' = Append(kokkos_calls, "initialize")
            /\ CONSTANTS_' = [CONSTANTS_ EXCEPT !.IS_INITIALIZED = TRUE]
       ELSE UNCHANGED <<kokkos_calls, CONSTANTS_>>
    /\ raised' = "none"
    /\ UNCHANGED <<pc, inference_vars, sig_vars, DEBUG, cuda_device>>

finalize ==
    /\ pc = "km"
    /\ last_call' = [op |-> "finalize"]
    /\ IF must_finalize(CONSTANTS_)
       THEN /\ Len(kokkos_calls) < MaxCalls
            /\ kokkos_calls' = Append(kokkos_calls, "finalize")
            /\ CONSTANTS_' = [CONSTANTS_ EXCEPT !.IS_INITIALIZED = FALSE]
       ELSE UNCHANGED <<kokkos_calls, CONSTANTS_>>
    /\ raised' = "none"
    /\ UNCHANGED <<pc, inference_vars, sig_vars, DEBUG, cuda_device>>

\* the values set_device_id is called with
DeviceIdArgs == {IntOf(n) : n \in -1..(MaxGpus + 1)} \cup {BoolV(TRUE), FloatV}

set_device_id(device_id) ==
    /\ pc = "km"
    /\ last_call' = [op |-> "set_device_id", device_id |-> device_id]
    /\ IF ~is_int(device_id) THEN
            /\ raised' = "TypeError"
            /\ UNCHANGED <<CONSTANTS_, cuda_device>>
       ELSE IF device_out_of_range(int_of(device_id), CONSTANTS_.NUM_GPUS) THEN
            /\ raised' = "RuntimeError"
            /\ UNCHANGED <<CONSTANTS_, cuda_device>>
       ELSE IF CONSTANTS_.NUM_GPUS = 1 THEN
            /\ raised' = "none"
            /\ UNCHANGED <<CONSTANTS_, cuda_device>>
       ELSE
            /\ raised' = "none"
            /\ cuda_device' = int_of(device_id)
            /\ CONSTANTS_' = select_device(CONSTANTS_, int_of(device_id))
    /\ UNCHANGED <<pc, inference_vars, sig_vars, DEBUG, kokkos_calls>>

\* space is an ExecutionSpace, or some other object (which is reported and ignored)
set_default_space(space) ==
    /\ pc = "km"
    /\ last_call' = [op |-> "set_default_space", space |-> space]
    /\ IF space \in ExecutionSpaces
       THEN CONSTANTS_' = [CONSTANTS_ EXCEPT !.EXECUTION_SPACE = space]
       ELSE UNCHANGED CONSTANTS_
    /\ raised' = "none"
    /\ UNCHANGED <<pc, inference_vars, sig_vars, DEBUG, kokkos_calls, cuda_device>>

\* a class that is not a DataTypeClass
OtherClass == [k |-> "class", name |-> s_int]

\* the values set_default_precision is called with: DataTypeClass subclasses, another
\* class, and a DataType member, which is no class
PrecisionArgs ==
    {DTypeClass(s_double), DTypeClass(s_float32), OtherClass, DTypeEnum(s_double)}

is_class(v) == v.k \in {"DataTypeClass", "class"}
is_data_type_class(v) == v.k = "DataTypeClass"

\* issubclass raises TypeError for an argument that is no class; a class that is not
\* a DataTypeClass is reported and ignored
set_default_precision(precision) ==
    /\ pc = "km"
    /\ last_call' = [op |-> "set_default_precision", precision |-> precision]
    /\ IF ~is_class(precision) THEN
            /\ raised' = "TypeError"
            /\ UNCHANGED CONSTANTS_
       ELSE IF ~is_data_type_class(precision) THEN
            /\ raised' = "none"
            /\ UNCHANGED CONSTANTS_
       ELSE
            /\ raised' = "none"
            /\ CONSTANTS_' = [CONSTANTS_ EXCEPT !.REAL_DTYPE = precision]
    /\ UNCHANGED <<pc, inference_vars, sig_vars, DEBUG, kokkos_calls, cuda_device>>

enable_uvm ==
    /\ pc = "km"
    /\ last_call' = [op |-> "enable_uvm"]
    /\ CONSTANTS_' = [CONSTANTS_ EXCEPT !.ENABLE_UVM = TRUE]
    /\ raised' = "none"
    /\ UNCHANGED <<pc, inference_vars, sig_vars, DEBUG, kokkos_calls, cuda_device>>

disable_uvm ==
    /\ pc = "km"
    /\ last_call' = [op |-> "disable_uvm"]
    /\ CONSTANTS_' = [CONSTANTS_ EXCEPT !.ENABLE_UVM = FALSE]
    /\ raised' = "none"
    /\ UNCHANGED <<pc, inference_vars, sig_vars, DEBUG, kokkos_calls, cuda_device>>

-----------------------------------------------------------------------------
(* The dispatch: handle_args, then get_annotations on its result *)

HandleArgs ==
    /\ pc = "dispatch"
    /\ handled_args' = handle_args(is_for, args, get_default_space(DEBUG, CONSTANTS_))
    /\ pc' = IF handled_args'.status = "ok" THEN "handled" ELSE "raised"
    /\ UNCHANGED <<parallel_type, is_for, args, passed_kwargs, policy_types,
                   updated_types, sig_vars, km_vars>>

InferPolicyArgs ==
    /\ pc = "handled"
    /\ policy_types' =
           infer_policy_args(handled_args.workunit.params,
                             policy_params_of(handled_args.policy, parallel_type),
                             handled_args.policy, parallel_type, UpdatedTypes)
    /\ pc' = "policy_inferred"
    /\ UNCHANGED <<parallel_type, is_for, args, passed_kwargs, handled_args,
                   updated_types, sig_vars, km_vars>>

GetAnnotations ==
    /\ pc = "handled"
    /\ updated_types' = get_annotations(parallel_type, handled_args, args, passed_kwargs)
    /\ pc' = "annotated"
    /\ UNCHANGED <<parallel_type, is_for, args, passed_kwargs, handled_args,
                   policy_types, sig_vars, km_vars>>

\* two calls of get_types_sig
GetTypesSig ==
    /\ pc = "signature"
    /\ signatures' = [j \in 1..2 |->
                         get_types_sig(sig_maps[j].inferred_types,
                                       sig_maps[j].inferred_layouts)]
    /\ pc' = "signed"
    /\ UNCHANGED <<sig_maps, inference_vars, km_vars>>

-----------------------------------------------------------------------------
(* Inputs *)

MaxParams == 4
MaxDims == 2
MaxPositional == 2
MaxRank == 2
MaxIntBits == 33
MaxSigParams == 2

ParallelTypes == {"parallel_for", "parallel_reduce", "parallel_scan"}

Letters == <<"a", "b", "c", "d", "e", "f", "g", "h">>
NameOf(j) == <<Letters[j]>>

SeqUpTo(S, n) == UNION {[1..m -> S] : m \in 0..n}

ParamLists(n) == {[j \in 1..n |-> Param(NameOf(j), fl[j])] : fl \in [1..n -> BOOLEAN]}
Workunits(n) == {FunctionV(pl) : pl \in UNION {ParamLists(m) : m \in 0..n}}

KwargsOver(names, values) == UNION {[D -> values] : D \in SUBSET names}

\* a dispatch call: an optional label, the policy, the workunit, positional extras
CallTuples(labels, policies, workunits, extras) ==
    {l \o <<p, w>> \o e : l \in labels, p \in policies, w \in workunits, e \in extras}

\* no label, a str label, a numpy.str_ label
Labels == {<<>>, <<StrV(<<"k">>)>>, <<NumpyV(s_str_)>>}

AllPolicies ==
    {PolicyV(kind, 1, "OpenMP") : kind \in {"RangePolicy", "TeamThreadRange", "TeamPolicy",
                                           "OtherPolicy"}}
    \cup {PolicyV("MDRangePolicy", d, "OpenMP") : d \in 1..MaxDims}
    \cup {IntOf(5)}

AView == ViewV("LayoutDefault", 1, DTypeEnum(s_double))

\* a scalar of each of two types and a view of each explicit layout
LayoutValues ==
    {IntOf(7), FloatV,
     ViewV("LayoutLeft", 1, DTypeEnum(s_double)),
     ViewV("LayoutRight", 1, DTypeEnum(s_double))}

InferenceIdle ==
    /\ parallel_type = "parallel_for"
    /\ is_for = TRUE
    /\ args = <<>>
    /\ passed_kwargs = <<>>
    /\ handled_args = [status |-> "none"]
    /\ policy_types = [status |-> "none"]
    /\ updated_types = [status |-> "none"]

SigIdle == sig_maps = <<>> /\ signatures = <<>>

\* the values the environment gives DEBUG: unset, empty, set
DebugValues == {NoneStr, SomeStr(<<>>), SomeStr(<<"1">>)}

KmUntouched ==
    /\ kokkos_calls = <<>>
    /\ cuda_device = 0
    /\ raised = "none"
    /\ last_call = [op |-> "import"]

KmIdle ==
    /\ DEBUG = NoneStr
    /\ KmUntouched

\* dispatches of every call shape and policy, over few values
Init ==
    /\ pc = "dispatch"
    /\ parallel_type \in ParallelTypes
    /\ is_for = (parallel_type = "parallel_for")
    /\ args \in CallTuples(Labels, AllPolicies, Workunits(MaxParams),
                           SeqUpTo({AView, IntOf(7), NoneV}, MaxPositional))
                \cup {<<>>} \cup {<<p>> : p \in AllPolicies}
    /\ passed_kwargs \in KwargsOver({NameOf(2), NameOf(3)}, {AView, IntOf(7)})
    /\ handled_args = [status |-> "none"]
    /\ policy_types = [status |-> "none"]
    /\ updated_types = [status |-> "none"]
    /\ SigIdle
    /\ CONSTANTS_ = DefaultConstants
    /\ DEBUG \in DebugValues
    /\ KmUntouched

Next == HandleArgs \/ InferPolicyArgs \/ GetAnnotations

Spec == Init /\ [][Next]_vars

\* the built-in ints around the promotion boundary, of both signs
IntValues ==
    {IntV(neg, [j \in 1..n |-> IF j = 1 THEN 1 ELSE b]) :
        neg \in BOOLEAN, n \in {1} \cup ((IntPromotionBits - 1)..MaxIntBits), b \in {0, 1}}
    \cup {Zero}

Layouts == {"LayoutLeft", "LayoutRight", "LayoutDefault"}

DTypes ==
    {DTypeEnum(s_double), DTypeEnum(s_int32), DTypeEnum(s_float64),
     DTypeClass(s_float32), DTypeOther}

ViewValues == {ViewV(l, r, d) : l \in Layouts, r \in 1..MaxRank, d \in DTypes}

NumpyValues == {NumpyV(s_int32), NumpyV(s_float64), NumpyV(s_str_)}

AllValues ==
    IntValues \cup ViewValues \cup NumpyValues \cup {FloatV, BoolV(TRUE), StrV(<<"k">>)}

\* dispatches over a flat range with two value parameters bound to every kind of value
InitValues ==
    /\ pc = "dispatch"
    /\ parallel_type = "parallel_for"
    /\ is_for = TRUE
    /\ \E fl \in [1..3 -> BOOLEAN], space \in ExecutionSpaces :
           args = <<PolicyV("RangePolicy", 1, space),
                    FunctionV([j \in 1..3 |-> Param(NameOf(j), fl[j])])>>
    /\ passed_kwargs \in [{NameOf(2), NameOf(3)} -> AllValues]
    /\ handled_args = [status |-> "none"]
    /\ policy_types = [status |-> "none"]
    /\ updated_types = [status |-> "none"]
    /\ SigIdle
    /\ CONSTANTS_ = DefaultConstants
    /\ KmIdle

SpecValues == InitValues /\ [][Next]_vars

\* type descriptors of the grammar
Descriptors ==
    {s_int, s_double, s_float, s_bool, s_TeamMember, s_Acc_double, s_numpy_int64,
     s_View \o <<"1", "D", ":">> \o s_double}

\* the layout entries of the view-typed parameters of types, all of one layout
LayoutsOf(types, layout) ==
    LET views == SelectSeq(types, LAMBDA e : contains(e[2], s_View))
    IN  [j \in 1..Len(views) |-> <<views[j][1], layout>>]

SigMaps ==
    {[inferred_types |-> [j \in 1..Len(ds) |-> <<NameOf(j), ds[j]>>],
      inferred_layouts |-> LayoutsOf([j \in 1..Len(ds) |-> <<NameOf(j), ds[j]>>], l)] :
        ds \in SeqUpTo(Descriptors, MaxSigParams), l \in {s_LayoutLeft, s_LayoutRight}}

InitSig ==
    /\ pc = "signature"
    /\ sig_maps \in [1..2 -> SigMaps]
    /\ signatures = <<>>
    /\ InferenceIdle
    /\ CONSTANTS_ = DefaultConstants
    /\ KmIdle

NextSig == GetTypesSig

SpecSig == InitSig /\ [][NextSig]_vars

\* the maps of a returned UpdatedTypes, as get_types_sig is handed them
maps_of(ut) ==
    [inferred_types |-> ut.inferred_types, inferred_layouts |-> ut.layout_change]

\* the workunit of a returned dispatch is dispatched again with other arguments;
\* the maps of the returned dispatch are kept, and after the second one both
\* pairs of maps go to get_types_sig
Redispatch ==
    /\ pc = "annotated"
    /\ updated_types.status = "ok"
    /\ Len(sig_maps) < 2
    /\ sig_maps' = Append(sig_maps, maps_of(updated_types))
    /\ IF Len(sig_maps') = 2
       THEN /\ pc' = "signature"
            /\ UNCHANGED <<passed_kwargs, handled_args, updated_types>>
       ELSE /\ pc' = "dispatch"
            /\ passed_kwargs' \in [{NameOf(2), NameOf(3)} -> LayoutValues]
            /\ handled_args' = [status |-> "none"]
            /\ updated_types' = [status |-> "none"]
    /\ UNCHANGED <<parallel_type, is_for, args, policy_types, signatures, km_vars>>

\* two dispatches of one workunit over a flat range, its two value parameters bound
\* to scalars and to views of either layout
InitRedispatch ==
    /\ pc = "dispatch"
    /\ parallel_type = "parallel_for"
    /\ is_for = TRUE
    /\ \E fl \in [1..3 -> BOOLEAN] :
           args = <<PolicyV("RangePolicy", 1, "OpenMP"),
                    FunctionV([j \in 1..3 |-> Param(NameOf(j), fl[j])])>>
    /\ passed_kwargs \in [{NameOf(2), NameOf(3)} -> LayoutValues]
    /\ handled_args = [status |-> "none"]
    /\ policy_types = [status |-> "none"]
    /\ updated_types = [status |-> "none"]
    /\ SigIdle
    /\ CONSTANTS_ = DefaultConstants
    /\ KmIdle

NextRedispatch == HandleArgs \/ GetAnnotations \/ Redispatch \/ GetTypesSig

SpecRedispatch == InitRedispatch /\ [][NextRedispatch]_vars

\* kokkos_manager after import: the multi-device block failed before its first
\* assignment (no cupy, no device query, a gpu module missing), or it ran
InitKm ==
    /\ pc = "km"
    /\ CONSTANTS_ \in {DefaultConstants} \cup {MultiGpuConstants(n) : n \in 0..MaxGpus}
    /\ KmIdle
    /\ InferenceIdle
    /\ SigIdle

NextKm ==
    \/ initialize
    \/ finalize
    \/ \E device_id \in DeviceIdArgs : set_device_id(device_id)
    \/ \E space \in ExecutionSpaces \cup {"not a space"} : set_default_space(space)
    \/ \E precision \in PrecisionArgs : set_default_precision(precision)
    \/ enable_uvm
    \/ disable_uvm

SpecKm == InitKm /\ [][NextKm]_vars

-----------------------------------------------------------------------------
(* Properties *)

\* what the claims call things
Returned == pc \in {"handled", "raised", "policy_inferred", "annotated"}
Handled == handled_args.status = "ok"
Params == handled_args.workunit.params
Arity == IF handled_args.policy.kind = "MDRangePolicy" THEN handled_args.policy.begin_len
         ELSE 1
PolicyParams ==
    Arity + (CASE parallel_type = "parallel_reduce" -> 1
               [] parallel_type = "parallel_scan" -> 2
               [] OTHER -> 0)
Undeclared(j) == ~Params[j].annotated
AllDeclared == \A j \in 1..Len(Params) : Params[j].annotated
HasLabel == is_str(args[1])
Offset == IF HasLabel THEN 3 ELSE 2
\* the value parameters a keyword argument names
Matched == {j \in (PolicyParams + 1)..Len(Params) : Params[j].name \in DOMAIN passed_kwargs}
\* positional arguments plus matched keyword arguments, minus the offset
ExtraCount == Len(args) + Cardinality(Matched) - Offset
\* the extra arguments, positional first, then the matched keywords in parameter order
Extras ==
    SubSeq(args, Offset + 1, Len(args))
    \o kwargs_values(Params, PolicyParams, passed_kwargs)
ValueParamCount == Len(Params) - PolicyParams
\* the value bound to value parameter j, once the counts agree
BoundValue(j) == Extras[j - PolicyParams]
Numeric(v) == v.k \in {"int", "float", "bool"}
\* the policy of the record, an int policy being a flat range over the default space
PolicyIs(v) ==
    IF v.k \in {"int", "bool"}
    THEN handled_args.policy = PolicyV("RangePolicy", 1, get_default_space(DEBUG, CONSTANTS_))
    ELSE handled_args.policy = v
RecordIs(name, policy, workunit, view, initial_value) ==
    /\ Handled
    /\ handled_args.name = name
    /\ PolicyIs(policy)
    /\ handled_args.workunit = workunit
    /\ handled_args.view = view
    /\ handled_args.initial_value = initial_value
NoRecord == handled_args.status \in {"TypeError", "ValueError"} /\ DOMAIN handled_args = {"status"}

\* C1: handle_args follows the disambiguation table: 2 args are (policy, workunit);
\* 3 args are (name, policy, workunit) when args[0] is a string, else
\* (policy, workunit, view) for a parallel_for with a view last, else
\* (policy, workunit, initial_value) with a number last, else an error; 4 args need a
\* string first and a view (parallel_for only) or a number last; every other length is
\* an error; an error returns no record, and a record with a view belongs to a
\* parallel_for and has initial_value 0.
C1_HandleArgsTable ==
    Returned =>
        LET n == Len(args) IN
        /\ n = 2 => RecordIs(NoneV, args[1], args[2], NoneV, Zero)
        /\ n = 3 /\ is_str(args[1]) => RecordIs(args[1], args[2], args[3], NoneV, Zero)
        /\ n = 3 /\ ~is_str(args[1]) /\ is_for /\ args[3].k = "View" =>
               RecordIs(NoneV, args[1], args[2], args[3], Zero)
        /\ n = 3 /\ ~is_str(args[1]) /\ ~(is_for /\ args[3].k = "View") /\ Numeric(args[3]) =>
               RecordIs(NoneV, args[1], args[2], NoneV, args[3])
        /\ n = 3 /\ ~is_str(args[1]) /\ ~(is_for /\ args[3].k = "View") /\ ~Numeric(args[3]) =>
               NoRecord
        /\ n = 4 /\ is_str(args[1]) /\ is_for /\ args[4].k = "View" =>
               RecordIs(args[1], args[2], args[3], args[4], Zero)
        /\ n = 4 /\ is_str(args[1]) /\ ~(is_for /\ args[4].k = "View") /\ Numeric(args[4]) =>
               RecordIs(args[1], args[2], args[3], NoneV, args[4])
        /\ n = 4 /\ is_str(args[1]) /\ ~(is_for /\ args[4].k = "View") /\ ~Numeric(args[4]) =>
               NoRecord
        /\ n = 4 /\ ~is_str(args[1]) => NoRecord
        /\ n \notin {2, 3, 4} => NoRecord
        /\ Handled /\ handled_args.view # NoneV => is_for /\ handled_args.initial_value = Zero

\* a labelled parallel_for of four arguments whose last is a view has returned
C1_Witness ==
    /\ pc = "handled"
    /\ Len(args) = 4
    /\ is_for
    /\ handled_args.view = AView
    /\ handled_args.name = StrV(<<"k">>)

\* the role the claim gives policy-owned parameter j (counted from 1)
ExpectedRole(j) ==
    IF parallel_type = "parallel_reduce" /\ j = PolicyParams THEN s_Acc_double
    ELSE IF parallel_type = "parallel_scan" /\ j = PolicyParams - 1 THEN s_Acc_double
    ELSE IF parallel_type = "parallel_scan" /\ j = PolicyParams THEN s_bool
    ELSE IF handled_args.policy.kind = "TeamPolicy" THEN s_TeamMember
    ELSE s_int

\* C2: for a supported policy and a workunit with at least policy_params parameters,
\* infer_policy_args returns a map whose keys are exactly the undeclared parameters
\* among the first policy_params, each with the role of its position: Acc:double for
\* the accumulator, bool for the last parameter of a scan, else int or TeamMember.
C2_PolicyRoles ==
    pc = "policy_inferred"
    /\ handled_args.policy.kind \in SupportedPolicies
    /\ Len(Params) >= PolicyParams
    =>  /\ policy_types.status = "ok"
        /\ Len(policy_types.inferred_types) = Cardinality(dict_keys(policy_types.inferred_types))
        /\ dict_keys(policy_types.inferred_types)
               = {Params[j].name : j \in {i \in 1..PolicyParams : Undeclared(i)}}
        /\ \A j \in 1..PolicyParams :
               Undeclared(j) =>
                   dict_get(policy_types.inferred_types, Params[j].name) = ExpectedRole(j)
        /\ policy_types.layout_change = <<>>

\* a scan over a multi-dimensional range with every policy parameter undeclared but
\* the accumulator
C2_Witness ==
    /\ pc = "policy_inferred"
    /\ parallel_type = "parallel_scan"
    /\ handled_args.policy.kind = "MDRangePolicy"
    /\ handled_args.policy.begin_len >= 2
    /\ Len(Params) = PolicyParams
    /\ \A j \in 1..PolicyParams : Undeclared(j) <=> j # PolicyParams - 1
    /\ policy_types.status = "ok"
    /\ Len(policy_types.inferred_types) = PolicyParams - 1

NoException == updated_types.status \in {"ok", "None"}
\* the value parameters bound to a view
ViewBound == {j \in (PolicyParams + 1)..Len(Params) : BoundValue(j).k = "View"}
CountsAgree == Len(Params) = PolicyParams \/ (Len(Params) > PolicyParams /\ ValueParamCount = ExtraCount)

\* C3 as stated: with every parameter declared, get_annotations returns None
\* whatever the extra arguments are.
C3_AllDeclaredReturnsNone ==
    pc = "annotated" /\ AllDeclared /\ NoException => updated_types = ReturnNone

\* C3 as amended: with every parameter declared and as many extra arguments as value
\* parameters, get_annotations returns None exactly when no value parameter is bound
\* to a view; otherwise it returns a record without types, with a layout for each
\* view-bound parameter and the signature of those layouts.
C3_AllDeclaredReturnsLayouts ==
    pc = "annotated" /\ AllDeclared /\ Len(Params) >= PolicyParams /\ CountsAgree =>
        IF Len(Params) = PolicyParams \/ ViewBound = {}
        THEN updated_types = ReturnNone
        ELSE /\ updated_types.status = "ok"
             /\ updated_types.inferred_types = <<>>
             /\ dict_keys(updated_types.layout_change) = {Params[j].name : j \in ViewBound}
             /\ updated_types.types_signature.some

\* a fully declared workunit whose value parameter is bound to a view got a record
C3_Witness ==
    /\ pc = "annotated"
    /\ AllDeclared
    /\ Len(Params) = PolicyParams + 2
    /\ CountsAgree
    /\ ViewBound # {}
    /\ updated_types.status = "ok"
    /\ Len(updated_types.layout_change) >= 1

UndeclaredValueCount == Cardinality({j \in (PolicyParams + 1)..Len(Params) : Undeclared(j)})

\* infer_policy_args raises for a policy it does not know when it meets an
\* undeclared policy-owned parameter
PolicyRejected ==
    /\ handled_args.policy.kind \notin SupportedPolicies
    /\ \E j \in 1..PolicyParams : Undeclared(j)

\* C4 as stated: with at least one value parameter, get_annotations fails with the
\* mismatch error exactly when the number of undeclared value parameters differs from
\* the number of extra arguments.
C4_MismatchCountsUndeclared ==
    pc = "annotated" /\ Len(Params) > PolicyParams /\ ~PolicyRejected
    =>  (updated_types.status = "AssertionError" <=> UndeclaredValueCount # ExtraCount)

\* C4 as amended: with at least one value parameter, and unless the policy was
\* rejected first, get_annotations fails with the mismatch error exactly when the
\* number of value parameters, declared or not, differs from the number of extra
\* arguments; the failure returns nothing.
C4_MismatchCountsAll ==
    pc = "annotated" /\ Len(Params) > PolicyParams
    =>  /\ updated_types.status = "AssertionError"
               <=> (ValueParamCount # ExtraCount /\ ~PolicyRejected)
        /\ updated_types.status = "AssertionError" => DOMAIN updated_types = {"status"}

\* the mismatch error was raised for a call with a matched keyword argument, and
\* passed for one whose declared value parameter has its argument
C4_Witness ==
    /\ pc = "annotated"
    /\ Len(Params) > PolicyParams
    /\ Matched # {}
    /\ updated_types.status = "AssertionError"
    /\ UndeclaredValueCount < ValueParamCount

\* the descriptors of signature input j, in order
DescriptorsOf(j) ==
    [i \in 1..Len(sig_maps[j].inferred_types) |-> sig_maps[j].inferred_types[i][2]]

\* C5: get_types_sig is deterministic and injective on the ordered descriptor
\* sequence: equal descriptor sequences with equal layouts give the same signature,
\* and two different descriptor sequences never give the same signature.
C5_SignatureInjective ==
    pc = "signed" =>
        /\ sig_maps[1] = sig_maps[2] => signatures[1] = signatures[2]
        /\ DescriptorsOf(1) # DescriptorsOf(2) => signatures[1] # signatures[2]

ValueParams == (PolicyParams + 1)..Len(Params)
InferredType(j) == dict_get(updated_types.inferred_types, Params[j].name)

\* C6: a built-in int bound to an undeclared value parameter is inferred as int when
\* its bit length is at most 31 and as numpy:int64 when it is at least 32, whatever
\* its sign; a declared value parameter gets no entry.
C6_IntPromotion ==
    pc = "annotated" /\ updated_types.status = "ok" =>
        \A j \in ValueParams :
            LET v == BoundValue(j)
                n == IF v = Zero THEN 0 ELSE Len(v.bits)
            IN  v.k = "int" =>
                    /\ Undeclared(j) /\ n <= 31 => InferredType(j) = s_int
                    /\ Undeclared(j) /\ n >= 32 => InferredType(j) = s_numpy_int64
                    /\ ~Undeclared(j) => ~dict_has(updated_types.inferred_types, Params[j].name)

\* a negative int of 32 bits was inferred as numpy:int64 next to a positive int of 31
\* bits inferred as int
C6_Witness ==
    /\ pc = "annotated"
    /\ updated_types.status = "ok"
    /\ Len(Params) = 3 /\ Undeclared(2) /\ Undeclared(3)
    /\ BoundValue(2).k = "int" /\ BoundValue(2).neg /\ Len(BoundValue(2).bits) = 32
    /\ BoundValue(3).k = "int" /\ ~BoundValue(3).neg /\ Len(BoundValue(3).bits) = 31
    /\ InferredType(2) = s_numpy_int64
    /\ InferredType(3) = s_int

\* the layout string the claim gives a view
ExpectedLayout(v) ==
    CASE v.layout = "LayoutLeft" -> s_LayoutLeft
      [] v.layout = "LayoutRight" -> s_LayoutRight
      [] OTHER -> IF get_default_layout(handled_args.policy.space) = "LayoutLeft"
                  THEN s_LayoutLeft ELSE s_LayoutRight
Resolvable(dtype) == dtype.k \in {"DataType", "DataTypeClass"}
ElementTypeName(dtype) ==
    CASE dtype.name = s_float64 -> s_double
      [] dtype.name = s_float32 -> s_float
      [] OTHER -> dtype.name
ExpectedViewType(v) ==
    s_View \o <<(<<"1", "2", "3", "4", "5", "6", "7", "8">>)[v.rank]>> \o <<"D", ":">>
    \o ElementTypeName(v.dtype)
\* value parameter j makes infer_other_args raise
Unresolved(j) ==
    Undeclared(j) /\ BoundValue(j).k = "View" /\ ~Resolvable(BoundValue(j).dtype)
Unsupported(j) ==
    Undeclared(j) /\ BoundValue(j).k = "numpy" /\ BoundValue(j).tname \notin SUPPORTED_NP_DTYPES

\* C7: every view bound to a value parameter p gets layout_change[p], declared or
\* not: its own layout when explicit, the default of the policy's space otherwise;
\* an undeclared p gets the type View<rank>D:<dtype>; an unresolvable dtype raises a
\* TypeError naming p and nothing is recorded.
C7_ViewInference ==
    pc = "annotated" =>
        /\ updated_types.status = "ok" =>
               \A j \in ValueParams :
                   LET v == BoundValue(j) IN
                   v.k = "View" =>
                       /\ dict_has(updated_types.layout_change, Params[j].name)
                       /\ dict_get(updated_types.layout_change, Params[j].name)
                              = ExpectedLayout(v)
                       /\ Undeclared(j) => InferredType(j) = ExpectedViewType(v)
        /\ \A j \in ValueParams :
               Unresolved(j) =>
                   /\ updated_types.status = "TypeError"
                   /\ (\A i \in ValueParams : i < j => ~Unresolved(i) /\ ~Unsupported(i))
                          => updated_types = RaiseFor("TypeError", Params[j].name)

\* a declared parameter bound to a view of default layout on Cuda got LayoutLeft, and
\* an undeclared one bound to a float32 view of rank 2 got View2D:float
C7_Witness ==
    /\ pc = "annotated"
    /\ updated_types.status = "ok"
    /\ handled_args.policy.space = "Cuda"
    /\ ~Undeclared(2) /\ Undeclared(3)
    /\ BoundValue(2).k = "View" /\ BoundValue(2).layout = "LayoutDefault"
    /\ BoundValue(3) = ViewV("LayoutRight", 2, DTypeClass(s_float32))
    /\ dict_get(updated_types.layout_change, Params[2].name) = s_LayoutLeft
    /\ dict_get(updated_types.layout_change, Params[3].name) = s_LayoutRight
    /\ InferredType(3) = s_View \o <<"2", "D", ":">> \o s_float

\* C8: the calls of kokkos.initialize() and kokkos.finalize() alternate, starting
\* with initialize, and IS_INITIALIZED is True exactly after an initialize that no
\* finalize has followed.
C8_InitializeFinalizeAlternate ==
    /\ \A i \in 1..Len(kokkos_calls) :
           kokkos_calls[i] = IF i % 2 = 1 THEN "initialize" ELSE "finalize"
    /\ CONSTANTS_.IS_INITIALIZED = (Len(kokkos_calls) % 2 = 1)

\* the runtime was initialized, finalized and initialized again
C8_Witness ==
    /\ Len(kokkos_calls) = 3
    /\ last_call.op = "initialize"
    /\ CONSTANTS_.IS_INITIALIZED

\* the last call was set_device_id with an int outside [0, NUM_GPUS)
BadDeviceCall(call, constants) ==
    /\ call.op = "set_device_id"
    /\ call.device_id.k \in {"int", "bool"}
    /\ (int_of(call.device_id) < 0 \/ int_of(call.device_id) >= constants.NUM_GPUS)

C9_Consistent ==
    /\ get_kokkos_module(CONSTANTS_, TRUE) = KokkosLib
    /\ CONSTANTS_.NUM_GPUS >= 1 =>
           /\ CONSTANTS_.DEVICE_ID \in 0..(CONSTANTS_.NUM_GPUS - 1)
           /\ get_kokkos_module(CONSTANTS_, FALSE)
                  = CONSTANTS_.KOKKOS_GPU_MODULE_LIST[CONSTANTS_.DEVICE_ID + 1]
           /\ BadDeviceCall(last_call, CONSTANTS_) => raised = "RuntimeError"

C9_BadCallChangesNothing ==
    BadDeviceCall(last_call', CONSTANTS_) /\ CONSTANTS_.NUM_GPUS >= 1 =>
        /\ CONSTANTS_'.DEVICE_ID = CONSTANTS_.DEVICE_ID
        /\ CONSTANTS_'.KOKKOS_GPU_MODULE = CONSTANTS_.KOKKOS_GPU_MODULE

\* C9: with NUM_GPUS >= 1, after any calls DEVICE_ID is in [0, NUM_GPUS) and
\* get_kokkos_module(False) is KOKKOS_GPU_MODULE_LIST[DEVICE_ID]; a set_device_id
\* with an int outside the range raises and changes neither; get_kokkos_module(True)
\* is always the kokkos module.
C9_DeviceSelection == []C9_Consistent /\ [][C9_BadCallChangesNothing]_vars

\* a device other than the first was selected, and a later call with an id outside
\* the range raised
C9_Witness ==
    /\ CONSTANTS_.NUM_GPUS >= 2
    /\ CONSTANTS_.DEVICE_ID = CONSTANTS_.NUM_GPUS - 1
    /\ CONSTANTS_.KOKKOS_GPU_MODULE = GpuLib(CONSTANTS_.DEVICE_ID)
    /\ BadDeviceCall(last_call, CONSTANTS_)
    /\ raised = "RuntimeError"

\* C10: a result get_annotations returns carries the signature get_types_sig computes
\* from its inferred_types and layout_change, a string whenever either map has an
\* entry, also when every parameter is policy-owned.
C10_ResultCarriesSignature ==
    pc = "annotated" /\ updated_types.status = "ok" =>
        /\ updated_types.types_signature
               = get_types_sig(updated_types.inferred_types, updated_types.layout_change)
        /\ updated_types.types_signature.some

\* the two dispatches recorded a different layout for some view parameter
LayoutsDiffer ==
    \E j \in 1..Len(sig_maps[1].inferred_layouts) :
        LET name == sig_maps[1].inferred_layouts[j][1]
        IN  /\ dict_has(sig_maps[2].inferred_layouts, name)
            /\ dict_get(sig_maps[2].inferred_layouts, name)
                   # sig_maps[1].inferred_layouts[j][2]

\* C11: two dispatches of the same callback that produce the same inferred-type map
\* but layout maps that differ on some view parameter, declared or not, get different
\* signatures from get_types_sig.
C11_SignatureEncodesLayouts ==
    pc = "signed" /\ sig_maps[1].inferred_types = sig_maps[2].inferred_types
                  /\ LayoutsDiffer
        => signatures[1] # signatures[2]

====
